---------------------------- MODULE Spec2Model ----------------------------
(***************************************************************************)
(* MiniPython front end and interpreter (repository COMPIL).               *)
(*                                                                         *)
(* The repository holds several variants of one pipeline                   *)
(*   lex -> parse -> semantic analysis -> execution:                       *)
(*     TP4.py           compile_and_execute, SemanticTransformer, execute  *)
(*     prgPythonPur.py  a straight-line script with a hand-written lexer   *)
(*                      (re.finditer) and parsing loop                     *)
(*     analyse2.py      MiniPythonLarkAnalyzer (no evaluator)              *)
(*                                                                         *)
(* A Python str is modelled as a sequence of one-character strings, so     *)
(* that lexing, str.isdigit and int(str) are computed and not assumed.     *)
(***************************************************************************)
EXTENDS Integers, Sequences, FiniteSets, TLC

VARIABLES
    code_source,   \* the source text handed to the pipeline
    pc,            \* position of the running function / script
    tokens,        \* token list produced by the lexical phase
    i,             \* prgPythonPur.py: index i of the parsing loop (0-based)
    ip,            \* execute: position of `for stmt in ast` (1-based)
    ast,           \* the statement list (ast_syntax / ast / ast_semantic)
    symbol_table,  \* dict name -> 'int'
    runtime,       \* execute: dict name -> value
    output,        \* values written by the program's print statements
    log,           \* phase banners written by compile_and_execute
    error,         \* the exception that ended the run ("" when none)
    stmt,          \* execute: the statement the loop has just handled
    runs           \* number of calls of check on one SemanticTransformer

vars == <<code_source, pc, tokens, i, ip, ast, symbol_table, runtime, output,
          log, error, stmt, runs>>

-----------------------------------------------------------------------------
(* Characters *)

Lower == {"a","b","c","d","e","f","g","h","i","j","k","l","m","n","o","p",
          "q","r","s","t","u","v","w","x","y","z"}
Upper == {"A","B","C","D","E","F","G","H","I","J","K","L","M","N","O","P",
          "Q","R","S","T","U","V","W","X","Y","Z"}
Digit == {"0","1","2","3","4","5","6","7","8","9"}

\* [a-zA-Z_]
NameStart == Lower \cup Upper \cup {"_"}
\* [a-zA-Z0-9_]  (\w restricted to ASCII)
NameChar == NameStart \cup Digit
\* \s of Python's re, restricted to ASCII
LarkSpace == {" ", "\t", "\n", "\r", "\f"}
\* [ \t\n] : the SKIP pattern of prgPythonPur.py
PurSkip == {" ", "\t", "\n"}

\* Index just after the longest run of characters of class cls that starts
\* at position p of s (p itself when s[p] is not in cls): a greedy  cls*
RECURSIVE RunEnd(_, _, _)
RunEnd(s, p, cls) ==
    IF p <= Len(s) /\ s[p] \in cls THEN RunEnd(s, p + 1, cls) ELSE p

\* Does the literal lit occur in s at position p ?
StartsWith(s, p, lit) ==
    /\ p + Len(lit) - 1 <= Len(s)
    /\ \A k \in 1..Len(lit) : s[p + k - 1] = lit[k]

\* str.isdigit() for ASCII text: non-empty and all digits
IsDigitStr(s) == Len(s) > 0 /\ \A k \in 1..Len(s) : s[k] \in Digit

DigitVal(c) ==
    CASE c = "0" -> 0 [] c = "1" -> 1 [] c = "2" -> 2 [] c = "3" -> 3
      [] c = "4" -> 4 [] c = "5" -> 5 [] c = "6" -> 6 [] c = "7" -> 7
      [] c = "8" -> 8 [] c = "9" -> 9

\* int(s) for a string of decimal digits
RECURSIVE StrToInt(_)
StrToInt(s) ==
    IF Len(s) = 0 THEN 0
    ELSE 10 * StrToInt(SubSeq(s, 1, Len(s) - 1)) + DigitVal(s[Len(s)])

KwInt   == <<"i","n","t">>
KwPrint == <<"p","r","i","n","t">>

-----------------------------------------------------------------------------
(* TP4.py: parser.lex(code_source), the lexer Lark builds from `grammar`   *)
(* (terminals "int" "," ";" "=" "print" NAME NUMBER, %ignore /\s+/).       *)
(* Lark matches NAME greedily and retypes the match when it is exactly a   *)
(* keyword literal; a position where no terminal matches raises            *)
(* UnexpectedCharacters.                                                   *)

Tok(t, v) == [type |-> t, value |-> v]

LarkNameType(lexeme) ==
    IF lexeme = KwInt THEN "INT"
    ELSE IF lexeme = KwPrint THEN "PRINT"
    ELSE "NAME"

LarkPunct(c) ==
    CASE c = "," -> "COMMA" [] c = ";" -> "SEMICOLON" [] c = "=" -> "EQUAL"

RECURSIVE LarkLexFrom(_, _)
LarkLexFrom(s, p) ==
    IF p > Len(s) THEN [ok |-> TRUE, toks |-> <<>>, pos |-> 0]
    ELSE IF s[p] \in LarkSpace THEN LarkLexFrom(s, RunEnd(s, p, LarkSpace))
    ELSE IF s[p] \in NameStart \cup Digit \cup {",", ";", "="} THEN
        LET e    == IF s[p] \in NameStart THEN RunEnd(s, p, NameChar)
                    ELSE IF s[p] \in Digit THEN RunEnd(s, p, Digit)
                    ELSE p + 1
            lx   == SubSeq(s, p, e - 1)
            t    == IF s[p] \in NameStart THEN LarkNameType(lx)
                    ELSE IF s[p] \in Digit THEN "NUMBER"
                    ELSE LarkPunct(s[p])
            rest == LarkLexFrom(s, e)
        IN  IF rest.ok
            THEN [ok |-> TRUE, toks |-> <<Tok(t, lx)>> \o rest.toks, pos |-> 0]
            ELSE rest
    ELSE [ok |-> FALSE, toks |-> <<>>, pos |-> p]

LarkLex(s) == LarkLexFrom(s, 1)

-----------------------------------------------------------------------------
(* prgPythonPur.py: tokens = [... for m in re.finditer(regex, code_source) *)
(* if m.lastgroup != 'SKIP'].  The alternatives are tried in the order of  *)
(* token_specification; finditer searches, so a position where no          *)
(* alternative matches is passed over.                                     *)

PurPunct(c) ==
    CASE c = "," -> "COMMA" [] c = ";" -> "SEMICOLON" [] c = "+" -> "PLUS"
      [] c = "=" -> "EQUAL" [] c = "(" -> "LPAR" [] c = ")" -> "RPAR"

\* The match of the alternation at position p: [type, end] or type "NONE"
PurMatchAt(s, p) ==
    IF s[p] \in Digit THEN [type |-> "NUMBER", end |-> RunEnd(s, p, Digit)]
    ELSE IF StartsWith(s, p, KwInt) THEN [type |-> "INT", end |-> p + 3]
    ELSE IF StartsWith(s, p, KwPrint) THEN [type |-> "PRINT", end |-> p + 5]
    ELSE IF s[p] \in NameStart
        THEN [type |-> "ID", end |-> RunEnd(s, p + 1, NameChar)]
    ELSE IF s[p] \in {",", ";", "+", "=", "(", ")"}
        THEN [type |-> PurPunct(s[p]), end |-> p + 1]
    ELSE IF s[p] \in PurSkip
        THEN [type |-> "SKIP", end |-> RunEnd(s, p, PurSkip)]
    ELSE [type |-> "NONE", end |-> p + 1]

RECURSIVE PurTokensFrom(_, _)
PurTokensFrom(s, p) ==
    IF p > Len(s) THEN <<>>
    ELSE LET m == PurMatchAt(s, p)
         IN  IF m.type \in {"SKIP", "NONE"} THEN PurTokensFrom(s, m.end)
             ELSE <<Tok(m.type, SubSeq(s, p, m.end - 1))>>
                      \o PurTokensFrom(s, m.end)

PurTokens(s) == PurTokensFrom(s, 1)

-----------------------------------------------------------------------------
(* Python values.  An int n is [k |-> "int", n |-> n, d |-> 1]; a float is *)
(* the exact rational n/d in lowest terms with d > 0 (IEEE rounding is not *)
(* modelled); None is the value of kind "None"; a tuple handed back by     *)
(* eval_expr unevaluated has kind "tuple".                                  *)

PyInt(n)   == [k |-> "int", n |-> n, d |-> 1]
PyNone     == [k |-> "None", n |-> 0, d |-> 1]
PyTuple    == [k |-> "tuple", n |-> 0, d |-> 1]

Abs(n) == IF n < 0 THEN -n ELSE n

RECURSIVE Gcd(_, _)
Gcd(a, b) == IF b = 0 THEN a ELSE Gcd(b, a % b)

\* floor division for either sign of the dividend (b > 0)
FloorDiv(a, b) == IF a >= 0 THEN a \div b ELSE -((-a + b - 1) \div b)

\* the float n/d, in lowest terms
PyFloat(n, d) ==
    LET sn == IF d < 0 THEN -n ELSE n
        sd == Abs(d)
        g  == Gcd(Abs(sn), sd)
    IN  [k |-> "float", n |-> FloorDiv(sn, g), d |-> sd \div g]

\* left + right, left - right, left * right: int when both are int
PyArith(op, a, b) ==
    LET n == CASE op = "+" -> a.n * b.d + b.n * a.d
               [] op = "-" -> a.n * b.d - b.n * a.d
               [] op = "*" -> a.n * b.n
        d == a.d * b.d
    IN  IF a.k = "int" /\ b.k = "int" THEN PyInt(n) ELSE PyFloat(n, d)

\* left / right: Python 3 true division, always a float
PyTrueDiv(a, b) == PyFloat(a.n * b.d, a.d * b.n)

-----------------------------------------------------------------------------
(* AST nodes.  A name is a str (sequence of characters).                   *)
(*   expressions: int literal [k "int", n], str [k "str", s],              *)
(*                tuple (op, left, right) [k "tuple", op, l, r]            *)
(*   statements:  tuples ("decl", vars) ("assign", var, expr)              *)
(*                ("print", var); analyse2.py's while tuple; lark Tree   *)
(*                objects [tag "Tree", data, children]                     *)

EInt(n)       == [k |-> "int", n |-> n]
EStr(s)       == [k |-> "str", s |-> s]
ETuple(o, l, r) == [k |-> "tuple", op |-> o, l |-> l, r |-> r]

SDecl(vs)     == [tag |-> "decl", vars |-> vs]
SAssign(v, e) == [tag |-> "assign", var |-> v, expr |-> e]
SPrint(v)     == [tag |-> "print", var |-> v]
LarkTree(d, c) == [tag |-> "Tree", data |-> d, children |-> c]

\* dict keyed by the names in S, every value 'int'
IntTable(S) == [n \in S |-> "int"]

-----------------------------------------------------------------------------
(* TP4.py: parser.parse(code_source) for `grammar`, followed by            *)
(* SyntaxTransformer().transform(tree).  The grammar is                    *)
(*   start: (decl | stmt)*      decl: "int" NAME ("," NAME)* ";"           *)
(*   stmt: assign | print_stmt  assign: NAME "=" expr ";"                  *)
(*   print_stmt: "print" NAME ";"    expr: NAME | NUMBER                   *)
(* The source texts drawn below separate keywords from names by white      *)
(* space, where Earley's dynamic lexing yields the tokens of LarkLex.      *)

TokType(toks, p) == IF p <= Len(toks) THEN toks[p].type ELSE "$END"

\* NAME ("," NAME)* ";" from position p: [ok, names, next]
RECURSIVE ParseNames(_, _)
ParseNames(toks, p) ==
    IF TokType(toks, p) # "NAME" THEN [ok |-> FALSE, names |-> <<>>, next |-> p]
    ELSE IF TokType(toks, p + 1) = "SEMICOLON"
        THEN [ok |-> TRUE, names |-> <<toks[p].value>>, next |-> p + 2]
    ELSE IF TokType(toks, p + 1) = "COMMA"
        THEN LET rest == ParseNames(toks, p + 2)
             IN  [ok |-> rest.ok, names |-> <<toks[p].value>> \o rest.names,
                  next |-> rest.next]
    ELSE [ok |-> FALSE, names |-> <<>>, next |-> p + 1]

\* SyntaxTransformer.expr / NAME / NUMBER
TransformExpr(tok) ==
    IF tok.type = "NUMBER" THEN EInt(StrToInt(tok.value)) ELSE EStr(tok.value)

\* SyntaxTransformer.decl, assign, print_stmt.  The transformer has no
\* callback for the rule `stmt`, so an assignment or print reaches the
\* statement list inside a lark Tree('stmt', [tuple]).
TransformDecl(names) == SDecl(names)
TransformStmt(node) == LarkTree("stmt", <<node>>)

\* (decl | stmt)* from position p: [ok, ast]
RECURSIVE ParseFrom(_, _)
ParseFrom(toks, p) ==
    IF p > Len(toks) THEN [ok |-> TRUE, ast |-> <<>>]
    ELSE IF toks[p].type = "INT" THEN
        LET ns == ParseNames(toks, p + 1)
            rest == ParseFrom(toks, ns.next)
        IN  IF ns.ok /\ rest.ok
            THEN [ok |-> TRUE, ast |-> <<TransformDecl(ns.names)>> \o rest.ast]
            ELSE [ok |-> FALSE, ast |-> <<>>]
    ELSE IF /\ toks[p].type = "NAME"
            /\ TokType(toks, p + 1) = "EQUAL"
            /\ TokType(toks, p + 2) \in {"NAME", "NUMBER"}
            /\ TokType(toks, p + 3) = "SEMICOLON" THEN
        LET rest == ParseFrom(toks, p + 4)
            node == SAssign(toks[p].value, TransformExpr(toks[p + 2]))
        IN  IF rest.ok
            THEN [ok |-> TRUE, ast |-> <<TransformStmt(node)>> \o rest.ast]
            ELSE rest
    ELSE IF /\ toks[p].type = "PRINT"
            /\ TokType(toks, p + 1) = "NAME"
            /\ TokType(toks, p + 2) = "SEMICOLON" THEN
        LET rest == ParseFrom(toks, p + 3)
            node == SPrint(EStr(toks[p + 1].value))
        IN  IF rest.ok
            THEN [ok |-> TRUE, ast |-> <<TransformStmt(node)>> \o rest.ast]
            ELSE rest
    ELSE [ok |-> FALSE, ast |-> <<>>]

\* the outcome of Phase 2 on a source text ([ok, ast])
LarkParse(s) ==
    LET lx == LarkLex(s)
    IN  IF lx.ok THEN ParseFrom(lx.toks, 1) ELSE [ok |-> FALSE, ast |-> <<>>]

-----------------------------------------------------------------------------
(* TP4.py: SemanticTransformer.check(ast_list), run on an object whose     *)
(* symbol table is st.  The result is [ok, st, new_ast, error]; when an    *)
(* exception is raised st is the table as the object is left with.         *)

Err(kind, pos) == [kind |-> kind, pos |-> pos]
NoError == Err("", 0)

\* for var in var_list: raise if var in symbol_table, else insert
RECURSIVE CheckDecl(_, _, _)
CheckDecl(var_list, k, st) ==
    IF k > Len(var_list) THEN [ok |-> TRUE, st |-> st]
    ELSE IF var_list[k] \in DOMAIN st THEN [ok |-> FALSE, st |-> st]
    ELSE CheckDecl(var_list, k + 1, st @@ IntTable({var_list[k]}))

\* the test of the "assign" branch: only the target is looked up
AssignDeclared(s, st) == s.var \in DOMAIN st

\* the test of the "print" branch (var is a str)
PrintDeclared(s, st) == s.var.s \in DOMAIN st \/ IsDigitStr(s.var.s)

RECURSIVE CheckFrom(_, _, _, _)
CheckFrom(ast_list, k, st, new_ast) ==
    IF k > Len(ast_list)
    THEN [ok |-> TRUE, st |-> st, new_ast |-> new_ast, error |-> NoError]
    ELSE LET s == ast_list[k]
             fail(kind, t) == [ok |-> FALSE, st |-> t, new_ast |-> <<>>,
                               error |-> Err(kind, k)]
         IN
         IF s.tag = "Tree"   \* stmt[0] on a lark Tree: not subscriptable
         THEN fail("TypeError", st)
         ELSE IF s.tag = "decl" THEN
             LET d == CheckDecl(s.vars, 1, st)
             IN  IF d.ok
                 THEN CheckFrom(ast_list, k + 1, d.st, Append(new_ast, s))
                 ELSE fail("Redeclared", d.st)
         ELSE IF s.tag = "assign" THEN
             IF AssignDeclared(s, st)
             THEN CheckFrom(ast_list, k + 1, st, Append(new_ast, s))
             ELSE fail("UndeclaredVariable", st)
         ELSE IF s.tag = "print" THEN
             IF s.var.k # "str" THEN fail("AttributeError", st)
             ELSE IF PrintDeclared(s, st)
             THEN CheckFrom(ast_list, k + 1, st, Append(new_ast, s))
             ELSE fail("UndeclaredVariable", st)
         ELSE CheckFrom(ast_list, k + 1, st, new_ast)

Check(ast_list, st) == CheckFrom(ast_list, 1, st, <<>>)

-----------------------------------------------------------------------------
(* TP4.py: execute(ast, symbol_table) and its local eval_expr              *)

\* runtime = {var: 0 for var in symbol_table.keys()}
InitialRuntime(st) == [n \in DOMAIN st |-> PyInt(0)]

\* EvalDiv with the guard dropped: left / right raises ZeroDivisionError
EvalDivUnguarded(left, right) ==
    IF right.n # 0 THEN PyTrueDiv(left, right)
    ELSE [k |-> "ZeroDivisionError", n |-> 0, d |-> 1]

\* left / right if right != 0 else 0
EvalDiv(left, right) ==
    IF right.n # 0 THEN PyTrueDiv(left, right) ELSE PyInt(0)

\* a str: the variable's value; else int(expr); else 0.  (The strings
\* drawn are names or digit strings, for which int() succeeds exactly on
\* the digit strings.)
EvalName(s, rt) ==
    IF s \in DOMAIN rt THEN rt[s]
    ELSE IF IsDigitStr(s) THEN PyInt(StrToInt(s))
    ELSE PyInt(0)

\* eval_expr.  The tuples drawn carry one of + - * / and number operands;
\* any other tuple falls through to `return expr`.
RECURSIVE EvalExpr(_, _)
EvalExpr(expr, rt) ==
    IF expr.k = "int" THEN PyInt(expr.n)
    ELSE IF expr.k = "str" THEN EvalName(expr.s, rt)
    ELSE LET left  == EvalExpr(expr.l, rt)
             right == EvalExpr(expr.r, rt)
         IN  IF expr.op \in {"+", "-", "*"} THEN PyArith(expr.op, left, right)
             ELSE IF expr.op = "/" THEN EvalDiv(left, right)
             ELSE PyTuple

\* StoreVar with the guard dropped: runtime[var] = val adds a missing key
StoreVarUnguarded(rt, var, val) ==
    [n \in DOMAIN rt \cup {var} |-> IF n = var THEN val ELSE rt[n]]

\* runtime after `if var in runtime: runtime[var] = val`
StoreVar(rt, var, val) ==
    IF var \in DOMAIN rt THEN [rt EXCEPT ![var] = val] ELSE rt

NoStmt == [tag |-> "none"]

\* one iteration of `for stmt in ast:` on statement s
ExecStep(s) ==
    /\ stmt' = s
    /\ ip' = ip + 1
    /\ IF s.tag = "Tree"    \* stmt[0] on a lark Tree raises TypeError
       THEN /\ error' = Err("TypeError", ip)
            /\ pc' = "failed"
            /\ UNCHANGED <<runtime, output>>
       ELSE /\ UNCHANGED <<error, pc>>
            /\ IF s.tag = "assign"
               THEN /\ runtime' = StoreVar(runtime, s.var, EvalExpr(s.expr, runtime))
                    /\ output' = output
               ELSE IF s.tag = "print"
               THEN /\ output' = Append(output, EvalExpr(s.var, runtime))
                    /\ runtime' = runtime
               ELSE UNCHANGED <<runtime, output>>

-----------------------------------------------------------------------------
(* Source texts.  A program text is a sequence of at most MaxStmts of the  *)
(* statement texts below, one per line, or one of the longer scenario      *)
(* programs of the specification.                                          *)

MaxStmts == 3

\* int x;
SrcIntX ==
    <<"i","n","t"," ","x",";">>
\* int y;
SrcIntY ==
    <<"i","n","t"," ","y",";">>
\* int x, y;
SrcIntXY ==
    <<"i","n","t"," ","x",","," ","y",";">>
\* int x, x;
SrcIntXX ==
    <<"i","n","t"," ","x",","," ","x",";">>
\* int y@;
SrcIntYAt ==
    <<"i","n","t"," ","y","@",";">>
\* int y
SrcIntYOpen ==
    <<"i","n","t"," ","y">>
\* x = 5;
SrcX5 ==
    <<"x"," ","="," ","5",";">>
\* x = y;
SrcXY ==
    <<"x"," ","="," ","y",";">>
\* y = 3;
SrcY3 ==
    <<"y"," ","="," ","3",";">>
\* y = x + 2;
SrcYX2 ==
    <<"y"," ","="," ","x"," ","+"," ","2",";">>
\* x = ;
SrcXNone ==
    <<"x"," ","="," ",";">>
\* x =
SrcXEq ==
    <<"x"," ","=">>
\* y = x + y;
SrcYXY ==
    <<"y"," ","="," ","x"," ","+"," ","y",";">>
\* print x;
SrcPrintX ==
    <<"p","r","i","n","t"," ","x",";">>
\* print(x);
SrcPrintParX ==
    <<"p","r","i","n","t","(","x",")",";">>
\* print(x)
SrcPrintParXOpen ==
    <<"p","r","i","n","t","(","x",")">>
\* print(y);
SrcPrintParY ==
    <<"p","r","i","n","t","(","y",")",";">>
\* int a;
SrcIntA ==
    <<"i","n","t"," ","a",";">>
\* a = 10 / 0;
SrcADiv ==
    <<"a"," ","="," ","1","0"," ","/"," ","0",";">>
\* int i;
SrcIntI ==
    <<"i","n","t"," ","i",";">>
\* i = 0;
SrcI0 ==
    <<"i"," ","="," ","0",";">>
\* while (i < 3) { print(i); i = i + 1; }
SrcWhile ==
    <<"w","h","i","l","e"," ","(","i"," ","<"," ","3",")"," ","{"," ","p","r","i","n","t","(","i",")",";"," ","i"," ","="," ","i"," ","+"," ","1",";"," ","}">>

SrcStmts ==
    {SrcIntX, SrcIntY, SrcIntXY, SrcIntXX, SrcIntYAt, SrcIntYOpen, SrcX5, SrcXY,
     SrcY3, SrcYX2, SrcYXY, SrcXNone, SrcXEq, SrcPrintX, SrcPrintParX, SrcPrintParXOpen,
     SrcPrintParY}

\* "\n".join(lines)
RECURSIVE JoinLines(_)
JoinLines(lines) ==
    IF Len(lines) = 0 THEN <<>>
    ELSE IF Len(lines) = 1 THEN lines[1]
    ELSE lines[1] \o <<"\n">> \o JoinLines(Tail(lines))

\* int x, y; x = 5; y = x + 2; print(y);
Scenario1 == JoinLines(<<SrcIntXY, SrcX5, SrcYX2, SrcPrintParY>>)
\* int a; a = 10 / 0;
Scenario5 == JoinLines(<<SrcIntA, SrcADiv>>)
\* int i; i = 0; while (i < 3) { print(i); i = i + 1; }
Scenario6 == JoinLines(<<SrcIntI, SrcI0, SrcWhile>>)

SrcPrograms ==
    {JoinLines(q) : q \in UNION {[1..n -> SrcStmts] : n \in 0..MaxStmts}}
        \cup {Scenario1, Scenario5, Scenario6}

-----------------------------------------------------------------------------
(* TP4.py: compile_and_execute(code_source)                                *)

Idle ==
    /\ tokens = <<>> /\ i = 0 /\ ip = 0 /\ ast = <<>> /\ symbol_table = <<>>
    /\ runtime = <<>> /\ output = <<>> /\ log = <<>> /\ error = NoError
    /\ stmt = NoStmt /\ runs = 0

Init ==
    /\ code_source \in SrcPrograms
    /\ pc = "lex"
    /\ Idle

\* Phase 1: tokens = list(parser.lex(code_source)); on an exception
\* "Erreur lexicale" and return False
TP4Lex ==
    /\ pc = "lex"
    /\ log' = Append(log, "lex")
    /\ LET r == LarkLex(code_source)
       IN  \/ /\ r.ok
              /\ tokens' = r.toks
              /\ pc' = "parse"
              /\ error' = error
           \/ /\ ~r.ok
              /\ error' = Err("LexError", r.pos)
              /\ pc' = "failed"
              /\ tokens' = tokens
    /\ UNCHANGED <<code_source, i, ip, ast, symbol_table, runtime, output, stmt, runs>>

\* Phase 2: tree = parser.parse(code_source);
\* ast_syntax = SyntaxTransformer().transform(tree)
TP4Parse ==
    /\ pc = "parse"
    /\ log' = Append(log, "parse")
    /\ LET r == LarkParse(code_source)
       IN  \/ /\ r.ok
              /\ ast' = r.ast
              /\ pc' = "semantic"
              /\ error' = error
           \/ /\ ~r.ok
              /\ error' = Err("ParseError", 0)
              /\ pc' = "failed"
              /\ ast' = ast
    /\ UNCHANGED <<code_source, tokens, i, ip, symbol_table, runtime, output, stmt,
                   runs>>

\* TP4Semantic with the `return False` of the except branch left out
TP4SemanticFallsThrough ==
    /\ pc = "semantic"
    /\ log' = Append(log, "semantic")
    /\ LET r == Check(ast, IntTable({}))
       IN  /\ error' = (IF r.ok THEN error ELSE r.error)
           /\ ast' = (IF r.ok THEN r.new_ast ELSE ast)
           /\ symbol_table' = r.st
           /\ pc' = "execute"
    /\ UNCHANGED <<code_source, tokens, i, ip, runtime, output, stmt, runs>>

\* Phase 3: semantic = SemanticTransformer();
\* ast_semantic = semantic.check(ast_syntax)
TP4Semantic ==
    /\ pc = "semantic"
    /\ log' = Append(log, "semantic")
    /\ LET r == Check(ast, IntTable({}))
       IN  \/ /\ r.ok
              /\ ast' = r.new_ast
              /\ symbol_table' = r.st
              /\ pc' = "execute"
              /\ error' = error
           \/ /\ ~r.ok
              /\ error' = r.error
              /\ pc' = "failed"
              /\ UNCHANGED <<ast, symbol_table>>
    /\ UNCHANGED <<code_source, tokens, i, ip, runtime, output, stmt, runs>>

\* Phase 5 (Phase 4 draws the tree and cannot stop the pipeline):
\* execute(ast_semantic, semantic.symbol_table) is entered
TP4Execute ==
    /\ pc = "execute"
    /\ log' = Append(log, "execute")
    /\ runtime' = InitialRuntime(symbol_table)
    /\ ip' = 1
    /\ pc' = "exec_loop"
    /\ UNCHANGED <<code_source, tokens, i, ast, symbol_table, output, error, stmt,
                   runs>>

\* for stmt in ast: ...
TP4ExecStmt ==
    /\ pc = "exec_loop"
    /\ ip <= Len(ast)
    /\ ExecStep(ast[ip])
    /\ UNCHANGED <<code_source, tokens, i, ast, symbol_table, log, runs>>

\* the loop is over: "Exécution réussie", return True
TP4Return ==
    /\ pc = "exec_loop"
    /\ ip > Len(ast)
    /\ pc' = "done"
    /\ UNCHANGED <<code_source, tokens, i, ip, ast, symbol_table, runtime, output,
                   log, error, stmt, runs>>

Next ==
    \/ TP4Lex
    \/ TP4Parse
    \/ TP4Semantic
    \/ TP4Execute
    \/ TP4ExecStmt
    \/ TP4Return

Spec == Init /\ [][Next]_vars

-----------------------------------------------------------------------------
(* execute(ast, symbol_table) called on its own.  The statement list is    *)
(* any list of at most MaxExec statements of ExecStmts: the loop draws its *)
(* next statement, and the list may end after any statement.               *)

MaxExec == 3
MaxNum == 2

NameI == <<"i">>
NameX == <<"x">>
NameY == <<"y">>
ExecNames == {NameI, NameX}

Ops == {"+", "-", "*", "/"}

\* literals and variable references
Leaves == {EInt(n) : n \in 0..MaxNum} \cup {EStr(v) : v \in ExecNames}

\* (op, left, right): a non-zero literal or x on the left; the literal 0
\* or a variable on the right
LeftOperands == {EInt(n) : n \in 1..MaxNum} \cup {EStr(NameX)}
RightOperands == {EInt(0)} \cup {EStr(v) : v \in ExecNames}
FlatExprs ==
    {ETuple(o, l, r) : o \in Ops, l \in LeftOperands, r \in RightOperands}

\* tuples with a tuple operand:  1 / (1 - 1)  and  (1 / 2) + 1
NestedExprs ==
    {ETuple("/", EInt(1), ETuple("-", EInt(1), EInt(1))),
     ETuple("+", ETuple("/", EInt(1), EInt(2)), EInt(1))}

Exprs == Leaves \cup FlatExprs \cup NestedExprs

\* what a print statement is given: a leaf, a str of digits, a quotient
PrintOperands ==
    Leaves \cup {EStr(<<"7">>), ETuple("/", EStr(NameX), EStr(NameI))}

\* analyse2.py, SyntaxTransformer.compare: ("compare", items[0], items[1])
ECompare(left, o) == [k |-> "compare", l |-> left, op |-> o]
\* analyse2.py, SyntaxTransformer.while_stmt
SWhileStmt(c, b) == [tag |-> "while(S-attribue)", cond |-> c, body |-> b]

\* while (i < 3) { print(i); i = i + 1; }
WhileI ==
    SWhileStmt(ECompare(EStr(NameI), "<"),
               <<SPrint(EStr(NameI)),
                 SAssign(NameI, ETuple("+", EStr(NameI), EInt(1)))>>)

ExecStmts ==
    {SAssign(v, e) : v \in ExecNames, e \in Exprs}
        \cup {SPrint(e) : e \in PrintOperands}
        \cup {SDecl(<<v>>) : v \in ExecNames}
        \cup {WhileI}
        \cup {LarkTree("stmt", <<SPrint(EStr(NameX))>>)}

\* the symbol tables execute is called with
ExecTables == {IntTable(S) : S \in SUBSET ExecNames}

InitExec ==
    /\ code_source = <<>>
    /\ pc = "call"
    /\ tokens = <<>> /\ i = 0 /\ ip = 0 /\ ast = <<>>
    /\ symbol_table \in ExecTables
    /\ runtime = <<>> /\ output = <<>> /\ log = <<>> /\ error = NoError
    /\ stmt = NoStmt /\ runs = 0

\* runtime = {var: 0 for var in symbol_table.keys()}
ExecCall ==
    /\ pc = "call"
    /\ runtime' = InitialRuntime(symbol_table)
    /\ ip' = 1
    /\ pc' = "exec_loop"
    /\ UNCHANGED <<code_source, tokens, i, ast, symbol_table, output, log, error,
                   stmt, runs>>

\* for stmt in ast: the next statement of the list
ExecStmt ==
    /\ pc = "exec_loop"
    /\ ip <= MaxExec
    /\ \E s \in ExecStmts : ExecStep(s)
    /\ UNCHANGED <<code_source, tokens, i, ast, symbol_table, log, runs>>

\* the list is exhausted: execute returns
ExecReturn ==
    /\ pc = "exec_loop"
    /\ pc' = "done"
    /\ UNCHANGED <<code_source, tokens, i, ip, ast, symbol_table, runtime, output,
                   log, error, stmt, runs>>

NextExec ==
    \/ ExecCall
    \/ ExecStmt
    \/ ExecReturn

SpecExec == InitExec /\ [][NextExec]_vars

-----------------------------------------------------------------------------
(* prgPythonPur.py: the script, from the lexical phase to execute.         *)
(* i is the script's 0-based index; the token at index k is PurTok(k).     *)

PurTok(toks, k) == toks[k + 1]

\* str(n) for n >= 0
DigitChar(n) ==
    CASE n = 0 -> "0" [] n = 1 -> "1" [] n = 2 -> "2" [] n = 3 -> "3"
      [] n = 4 -> "4" [] n = 5 -> "5" [] n = 6 -> "6" [] n = 7 -> "7"
      [] n = 8 -> "8" [] n = 9 -> "9"

RECURSIVE IntToStr(_)
IntToStr(n) ==
    IF n < 10 THEN <<DigitChar(n)>>
    ELSE IntToStr(n \div 10) \o <<DigitChar(n % 10)>>

\* 'Var: ' + v,  'Const: ' + v,  'Var: ' + v + ' (type=int)'
PurVar(v)     == <<"V","a","r",":"," ">> \o v
PurConst(v)   == <<"C","o","n","s","t",":"," ">> \o v
PurDeclVar(v) == PurVar(v) \o <<" ","(","t","y","p","e","=","i","n","t",")">>

\* first index >= p where ": " occurs in s, 0 when there is none
RECURSIVE FindSep(_, _)
FindSep(s, p) ==
    IF p + 1 > Len(s) THEN 0
    ELSE IF s[p] = ":" /\ s[p + 1] = " " THEN p
    ELSE FindSep(s, p + 1)

\* s.split(': ')[1]   (the strings built above all hold a ': ')
SplitField1(s) ==
    LET a == FindSep(s, 1)
        b == FindSep(s, a + 2)
    IN  SubSeq(s, a + 2, IF b = 0 THEN Len(s) ELSE b - 1)

\* the nodes appended to ast: (label, [children])
PurNode(label, items) == [tag |-> label, items |-> items]

\* while tokens[i][0] != 'SEMICOLON': the index of the first SEMICOLON at
\* or after index k, or -1 when the scan leaves the list (IndexError)
RECURSIVE PurSemicolonFrom(_, _)
PurSemicolonFrom(toks, k) ==
    IF k >= Len(toks) THEN -1
    ELSE IF PurTok(toks, k).type = "SEMICOLON" THEN k
    ELSE PurSemicolonFrom(toks, k + 1)

\* vars_list: the values of the ID tokens at indices k .. e-1
RECURSIVE PurVarsList(_, _, _)
PurVarsList(toks, k, e) ==
    IF k >= e THEN <<>>
    ELSE IF PurTok(toks, k).type = "ID"
        THEN <<PurTok(toks, k).value>> \o PurVarsList(toks, k + 1, e)
    ELSE PurVarsList(toks, k + 1, e)

SeqRange(q) == {q[k] : k \in 1..Len(q)}

InitPur ==
    /\ code_source \in SrcPrograms
    /\ pc = "lex"
    /\ Idle

\* tokens = [... re.finditer ...]; symbol_table = {}; ast = []; i = 0
PurLex ==
    /\ pc = "lex"
    /\ tokens' = PurTokens(code_source)
    /\ pc' = "parse"
    /\ UNCHANGED <<code_source, i, ip, ast, symbol_table, runtime, output, log,
                   error, stmt, runs>>

PurRaise(kind) ==
    /\ error' = Err(kind, i)
    /\ pc' = "failed"

\* while i < len(tokens): the branch  tok == 'INT'
PurParseDecl ==
    /\ pc = "parse"
    /\ i < Len(tokens)
    /\ PurTok(tokens, i).type = "INT"
    /\ LET e == PurSemicolonFrom(tokens, i + 1)
           vars_list == PurVarsList(tokens, i + 1, e)
       IN  \/ /\ e = -1
              /\ PurRaise("IndexError")
              /\ UNCHANGED <<i, ast, symbol_table>>
           \/ /\ e # -1
              /\ symbol_table' =
                     IntTable(DOMAIN symbol_table \cup SeqRange(vars_list))
              /\ ast' = Append(ast, PurNode("Decl",
                     [k \in 1..Len(vars_list) |-> PurDeclVar(vars_list[k])]))
              /\ i' = e + 1
              /\ UNCHANGED <<pc, error>>
    /\ UNCHANGED <<code_source, tokens, ip, runtime, output, log, stmt, runs>>

\* the expression node of an assignment without '+'
PurPlainExpr(left_val) ==
    PurNode("Expr", <<IF IsDigitStr(left_val) THEN PurConst(left_val)
                      ELSE PurVar(left_val)>>)

\* the expression node of  left + right_val
PurPlusExpr(left_val, right_val) ==
    PurNode("Expr: +", <<PurVar(left_val), PurConst(IntToStr(right_val))>>)

\* the branch  tok == 'ID'
PurParseAssign ==
    /\ pc = "parse"
    /\ i < Len(tokens)
    /\ PurTok(tokens, i).type = "ID"
    /\ LET var_name == PurTok(tokens, i).value
           assign(expr) == PurNode("Assign", <<PurVar(var_name), expr>>)
       IN  \/ /\ i + 2 >= Len(tokens)            \* tokens[i] after i += 2
              /\ PurRaise("IndexError")
              /\ UNCHANGED <<i, ast>>
           \/ /\ i + 2 < Len(tokens)
              /\ ~(i + 3 < Len(tokens) /\ PurTok(tokens, i + 3).type = "PLUS")
              /\ ast' = Append(ast, assign(PurPlainExpr(PurTok(tokens, i + 2).value)))
              /\ i' = i + 3
              /\ UNCHANGED <<pc, error>>
           \/ /\ i + 3 < Len(tokens)
              /\ PurTok(tokens, i + 3).type = "PLUS"
              /\ \/ /\ i + 4 >= Len(tokens)      \* tokens[i] after the '+'
                    /\ PurRaise("IndexError")
                    /\ UNCHANGED <<i, ast>>
                 \/ /\ i + 4 < Len(tokens)
                    /\ ~IsDigitStr(PurTok(tokens, i + 4).value)   \* int(...)
                    /\ PurRaise("ValueError")
                    /\ UNCHANGED <<i, ast>>
                 \/ /\ i + 4 < Len(tokens)
                    /\ IsDigitStr(PurTok(tokens, i + 4).value)
                    /\ ast' = Append(ast, assign(PurPlusExpr(
                                  PurTok(tokens, i + 2).value,
                                  StrToInt(PurTok(tokens, i + 4).value))))
                    /\ i' = i + 5
                    /\ UNCHANGED <<pc, error>>
    /\ UNCHANGED <<code_source, tokens, ip, symbol_table, runtime, output, log,
                   stmt, runs>>

\* the branch  tok == 'PRINT'
PurParsePrint ==
    /\ pc = "parse"
    /\ i < Len(tokens)
    /\ PurTok(tokens, i).type = "PRINT"
    /\ \/ /\ i + 2 >= Len(tokens)
          /\ PurRaise("IndexError")
          /\ UNCHANGED <<i, ast>>
       \/ /\ i + 2 < Len(tokens)
          /\ ast' = Append(ast, PurNode("Print", <<PurVar(PurTok(tokens, i + 2).value)>>))
          /\ i' = i + 4
          /\ UNCHANGED <<pc, error>>
    /\ UNCHANGED <<code_source, tokens, ip, symbol_table, runtime, output, log,
                   stmt, runs>>

\* any other token: no branch is taken and i keeps its value
PurParseOther ==
    /\ pc = "parse"
    /\ i < Len(tokens)
    /\ PurTok(tokens, i).type \notin {"INT", "ID", "PRINT"}
    /\ UNCHANGED vars

\* the loop condition fails
PurParseEnd ==
    /\ pc = "parse"
    /\ i >= Len(tokens)
    /\ pc' = "semantic"
    /\ UNCHANGED <<code_source, tokens, i, ip, ast, symbol_table, runtime, output,
                   log, error, stmt, runs>>

\* semantic_check: is the variable of an Assign or Print node declared ?
PurDeclared(node, st) ==
    node.tag = "Decl" \/ SplitField1(node.items[1]) \in DOMAIN st

\* ast_semantic = semantic_check(ast, symbol_table)
PurSemantic ==
    /\ pc = "semantic"
    /\ \/ /\ \A k \in 1..Len(ast) : PurDeclared(ast[k], symbol_table)
          /\ pc' = "execute"
          /\ error' = error
       \/ /\ \E k \in 1..Len(ast) : ~PurDeclared(ast[k], symbol_table)
          /\ error' = Err("UndeclaredVariable", 0)
          /\ pc' = "failed"
    /\ UNCHANGED <<code_source, tokens, i, ip, ast, symbol_table, runtime, output,
                   log, stmt, runs>>

\* runtime = {var: None for var in symbol_table.keys()}
PurInitialRuntime(st) == [n \in DOMAIN st |-> PyNone]

PurExecute ==
    /\ pc = "execute"
    /\ runtime' = PurInitialRuntime(symbol_table)
    /\ ip' = 1
    /\ pc' = "exec_loop"
    /\ UNCHANGED <<code_source, tokens, i, ast, symbol_table, output, log, error,
                   stmt, runs>>

\* for stmt in ast: an Assign reads stmt[2] of a 2-tuple (IndexError);
\* a Print writes runtime[var]
PurExecStmt ==
    /\ pc = "exec_loop"
    /\ ip <= Len(ast)
    /\ stmt' = ast[ip]
    /\ ip' = ip + 1
    /\ \/ /\ ast[ip].tag = "Assign"
          /\ error' = Err("IndexError", ip)
          /\ pc' = "failed"
          /\ output' = output
       \/ /\ ast[ip].tag = "Print"
          /\ output' = Append(output, runtime[SplitField1(ast[ip].items[1])])
          /\ UNCHANGED <<pc, error>>
       \/ /\ ast[ip].tag = "Decl"
          /\ UNCHANGED <<pc, error, output>>
    /\ UNCHANGED <<code_source, tokens, i, ast, symbol_table, runtime, log, runs>>

PurReturn ==
    /\ pc = "exec_loop"
    /\ ip > Len(ast)
    /\ pc' = "done"
    /\ UNCHANGED <<code_source, tokens, i, ip, ast, symbol_table, runtime, output,
                   log, error, stmt, runs>>

NextPur ==
    \/ PurLex
    \/ PurParseDecl
    \/ PurParseAssign
    \/ PurParsePrint
    \/ PurParseOther
    \/ PurParseEnd
    \/ PurSemantic
    \/ PurExecute
    \/ PurExecStmt
    \/ PurReturn

SpecPur == InitPur /\ [][NextPur]_vars

-----------------------------------------------------------------------------
(* TP4.py: a SemanticTransformer object and calls of its check method on   *)
(* one statement list.  log records what each call handed back.            *)

MaxRuns == 2

SemNames == {NameX, NameY}

\* the statements check is written for, and a lark Tree
SemStmts ==
    {SDecl(<<NameX>>), SDecl(<<NameY>>), SDecl(<<NameX, NameY>>),
     SDecl(<<NameX, NameX>>)}
        \cup {SAssign(v, e) : v \in SemNames,
                              e \in {EInt(1)} \cup {EStr(w) : w \in SemNames}}
        \cup {SPrint(EStr(v)) : v \in SemNames \cup {<<"7">>}}
        \cup {LarkTree("stmt", <<SPrint(EStr(NameX))>>)}

SemAsts == UNION {[1..n -> SemStmts] : n \in 0..MaxStmts}

InitSem ==
    /\ code_source = <<>>
    /\ pc = "checker"
    /\ tokens = <<>> /\ i = 0 /\ ip = 0
    /\ ast \in SemAsts
    /\ symbol_table = IntTable({})      \* __init__: self.symbol_table = {}
    /\ runtime = <<>> /\ output = <<>> /\ log = <<>> /\ error = NoError
    /\ stmt = NoStmt /\ runs = 0

\* the record of one call: did it return, and the object's table after it
SemResult(r) == [ok |-> r.ok, table |-> r.st]

\* semantic.check(ast) on the object as it is
SemCheck ==
    /\ pc = "checker"
    /\ Len(log) < MaxRuns
    /\ LET r == Check(ast, symbol_table)
       IN  /\ symbol_table' = r.st
           /\ error' = r.error
           /\ log' = Append(log, SemResult(r))
    /\ runs' = runs + 1
    /\ UNCHANGED <<code_source, pc, tokens, i, ip, ast, runtime, output, stmt>>

\* semantic = SemanticTransformer(): a new object replaces the used one
SemNew ==
    /\ pc = "checker"
    /\ runs > 0
    /\ symbol_table' = IntTable({})
    /\ runs' = 0
    /\ error' = NoError
    /\ UNCHANGED <<code_source, pc, tokens, i, ip, ast, runtime, output, log, stmt>>

NextSem ==
    \/ SemCheck
    \/ SemNew

SpecSem == InitSem /\ [][NextSem]_vars

-----------------------------------------------------------------------------
(* analyse2.py: MiniPythonLarkAnalyzer.  The lark parser is a library; a   *)
(* call of analyze is given the parse tree the parser returns for its      *)
(* code_source, any tree of A2Trees, and the model starts at               *)
(* SyntaxTransformer().transform(tree).  Anonymous tokens ("int", ";",     *)
(* "(", ...) are filtered out of a lark tree, rules that start with ? and  *)
(* have one child are inlined, and `-> name` names the tree.               *)

MaxA2Stmts == 2

\* a Python list
PyList(q) == [k |-> "list", items |-> q]

\* the parse trees of the rules of get_default_grammar
PVarList(names) ==
    LarkTree("var_list", [k \in 1..Len(names) |-> Tok("CNAME", names[k])])
PDecl(names)  == LarkTree("decl", <<PVarList(names)>>)
PAssign(v, e) == LarkTree("assign", <<Tok("CNAME", v), e>>)
PPrint(v)     == LarkTree("print_stmt", <<Tok("CNAME", v)>>)
PAdd(l, r)    == LarkTree("add", <<l, r>>)
PCompare(l, o, r) == LarkTree("compare", <<l, LarkTree(o, <<>>), r>>)
PWhile(c, body) == LarkTree("while_stmt", <<c>> \o body)
PIf(c, body)    == LarkTree("if_stmt", <<c>> \o body)
PStatement(s)   == LarkTree("statement", <<s>>)
PStart(stmts)   == LarkTree("start", stmts)

PName(v) == Tok("CNAME", v)
POne == Tok("NUMBER", <<"1">>)

\* int x;  int y;  int x, x;  x = 1;  y = x;  x = x + 1;  print(x);  print(y);
A2SimpleStmts ==
    {PDecl(<<NameX>>), PDecl(<<NameY>>), PDecl(<<NameX, NameX>>),
     PAssign(NameX, POne), PAssign(NameY, PName(NameX)),
     PAssign(NameX, PAdd(PName(NameX), POne)),
     PPrint(NameX), PPrint(NameY)}

\* the statements put inside a while or if body
A2BodyStmts == {PDecl(<<NameX>>), PAssign(NameY, POne), PPrint(NameY)}

\* x < 1
A2Cond == PCompare(PName(NameX), "lt", POne)

\* while (x < 1) { b }   and   if (x < 1) { b }
A2CompoundStmts ==
    {PWhile(A2Cond, <<PStatement(b)>>) : b \in A2BodyStmts}
        \cup {PIf(A2Cond, <<PStatement(b)>>) : b \in A2BodyStmts}

A2Stmts == A2SimpleStmts \cup A2CompoundStmts

\* start: statement*
A2Trees ==
    {PStart([k \in 1..Len(q) |-> PStatement(q[k])]) :
        q \in UNION {[1..n -> A2Stmts] : n \in 0..MaxA2Stmts}}

IsToken(t) == "type" \in DOMAIN t

\* SyntaxTransformer().transform(tree): bottom-up; a rule with no callback
\* (start, statement) stays a Tree over the transformed children
RECURSIVE A2Transform(_)
A2Transform(t) ==
    IF IsToken(t) THEN
        (IF t.type = "NUMBER" THEN EInt(StrToInt(t.value)) ELSE EStr(t.value))
    ELSE
        LET items == [k \in 1..Len(t.children) |-> A2Transform(t.children[k])]
        IN  CASE t.data = "decl" ->
                    [tag |-> "decl(L-attribue)", vars |-> items, type |-> "int"]
              [] t.data = "var_list" -> PyList(items)
              [] t.data = "assign" ->
                    [tag |-> "assign(S-attribue)", var |-> items[1],
                     expr |-> items[2]]
              [] t.data = "add" -> ETuple("+", items[1], items[2])
              [] t.data = "sub" -> ETuple("-", items[1], items[2])
              [] t.data = "mul" -> ETuple("*", items[1], items[2])
              [] t.data = "div" -> ETuple("/", items[1], items[2])
              [] t.data = "while_stmt" -> SWhileStmt(items[1], Tail(items))
              [] t.data = "if_stmt" ->
                    [tag |-> "if(S-attribue)", cond |-> items[1],
                     body |-> Tail(items)]
              [] t.data = "print_stmt" ->
                    [tag |-> "print(S-attribue)", var |-> items[1]]
              [] t.data = "compare" -> ECompare(items[1], items[2])
              [] t.data = "eq" -> "=="
              [] t.data = "ne" -> "!="
              [] t.data = "lt" -> "<"
              [] t.data = "gt" -> ">"
              [] OTHER -> LarkTree(t.data, items)

\* for var in ast[1]: a list is unhashable, so `var in self.symbol_table`
\* raises TypeError; a str is tested and inserted
RECURSIVE A2CheckDecl(_, _, _)
A2CheckDecl(var_list, k, st) ==
    IF k > Len(var_list) THEN [ok |-> TRUE, st |-> st, error |-> NoError]
    ELSE IF var_list[k].k = "list"
        THEN [ok |-> FALSE, st |-> st, error |-> Err("TypeError", k)]
    ELSE IF var_list[k].s \in DOMAIN st
        THEN [ok |-> FALSE, st |-> st, error |-> Err("Redeclared", k)]
    ELSE A2CheckDecl(var_list, k + 1, IntTable(DOMAIN st \cup {var_list[k].s}))

\* semantic_check(ast) on the object's symbol_table st
A2SemanticCheck(node, st) ==
    IF node.tag = "Tree" THEN [ok |-> TRUE, st |-> st, error |-> NoError]
    ELSE IF node.tag = "decl(L-attribue)" THEN A2CheckDecl(node.vars, 1, st)
    ELSE IF node.tag \in {"assign(S-attribue)", "print(S-attribue)"} THEN
        (IF node.var.s \in DOMAIN st
            THEN [ok |-> TRUE, st |-> st, error |-> NoError]
            ELSE [ok |-> FALSE, st |-> st, error |-> Err("UndeclaredVariable", 0)])
    ELSE [ok |-> TRUE, st |-> st, error |-> NoError]

\* the tuples semantic_check has branches for: the statement tuples the
\* transformer builds, and declaration tuples whose ast[1] lists names
A2Nodes ==
    {A2Transform(s) : s \in A2Stmts}
        \cup {[tag |-> "decl(L-attribue)", vars |-> q, type |-> "int"] :
                q \in {<<EStr(NameX)>>, <<EStr(NameY)>>,
                       <<EStr(NameX), EStr(NameX)>>}}

\* analyzer = MiniPythonLarkAnalyzer()
InitAn ==
    /\ code_source = <<>>
    /\ pc = "a2_idle"
    /\ tokens = <<>> /\ i = 0 /\ ip = 0 /\ ast = <<>>
    /\ symbol_table = IntTable({})
    /\ runtime = <<>> /\ output = <<>> /\ log = <<>> /\ error = NoError
    /\ stmt = NoStmt /\ runs = 0

\* analyzer.semantic_check(node), called on its own
A2CheckCall ==
    /\ pc = "a2_idle"
    /\ runs < MaxRuns
    /\ \E node \in A2Nodes :
          LET r == A2SemanticCheck(node, symbol_table)
          IN  /\ symbol_table' = r.st
              /\ error' = r.error
    /\ runs' = runs + 1
    /\ UNCHANGED <<code_source, pc, tokens, i, ip, ast, runtime, output, log, stmt>>

\* analyze: tokenize and parse succeed, ast = transform(tree)
A2Parse ==
    /\ pc = "a2_idle"
    /\ \E t \in A2Trees : ast' = A2Transform(t)
    /\ pc' = "a2_semantic"
    /\ error' = NoError
    /\ UNCHANGED <<code_source, tokens, i, ip, symbol_table, runtime, output, log,
                   stmt, runs>>

\* analyze: tokenize or parse raises; except Exception: return None
A2ParseError ==
    /\ pc = "a2_idle"
    /\ pc' = "a2_failed"
    /\ error' = Err("ParseError", 0)
    /\ UNCHANGED <<code_source, tokens, i, ip, ast, symbol_table, runtime, output,
                   log, stmt, runs>>

\* analyze: self.semantic_check(ast)
A2Semantic ==
    /\ pc = "a2_semantic"
    /\ LET r == A2SemanticCheck(ast, symbol_table)
       IN  /\ symbol_table' = r.st
           /\ error' = r.error
           /\ pc' = IF r.ok THEN "a2_tac" ELSE "a2_failed"
    /\ UNCHANGED <<code_source, tokens, i, ip, ast, runtime, output, log, stmt, runs>>

\* analyze: generate_tac(ast), visualize_ast(ast), return ast.  Neither
\* touches symbol_table; on a Tree generate_tac leaves tac_code = [].
A2Return ==
    /\ pc = "a2_tac"
    /\ pc' = "a2_done"
    /\ UNCHANGED <<code_source, tokens, i, ip, ast, symbol_table, runtime, output,
                   log, error, stmt, runs>>

NextAn ==
    \/ A2CheckCall
    \/ A2Parse
    \/ A2ParseError
    \/ A2Semantic
    \/ A2Return

SpecAn == InitAn /\ [][NextAn]_vars

-----------------------------------------------------------------------------
(* Properties                                                              *)

NoDuplicates(q) == \A a, b \in 1..Len(q) : q[a] = q[b] => a = b

\* the name inside 'Var: <name> (type=int)'
PurDeclName(item) == SubSeq(item, 6, Len(item) - 11)

\* the names declared by the Decl nodes of a prgPythonPur ast, in order
RECURSIVE PurDeclaredNames(_)
PurDeclaredNames(a) ==
    IF Len(a) = 0 THEN <<>>
    ELSE (IF a[1].tag = "Decl"
          THEN [k \in 1..Len(a[1].items) |-> PurDeclName(a[1].items[k])]
          ELSE <<>>)
             \o PurDeclaredNames(Tail(a))

\* C1: semantic analysis rejects redeclaration: a program that got past
\* semantic analysis declares no name twice (prgPythonPur.py).
C1_RedeclarationRejected ==
    pc \in {"execute", "exec_loop", "done"}
        => NoDuplicates(PurDeclaredNames(ast))

\* the variable names an expression refers to
RECURSIVE ExprNames(_)
ExprNames(e) ==
    IF e.k = "int" THEN {}
    ELSE IF e.k = "str" THEN (IF IsDigitStr(e.s) THEN {} ELSE {e.s})
    ELSE ExprNames(e.l) \cup ExprNames(e.r)

\* every variable reference of a statement
StmtRefs(s) ==
    IF s.tag = "assign" THEN {s.var} \cup ExprNames(s.expr)
    ELSE IF s.tag = "print" THEN ExprNames(s.var)
    ELSE {}

\* the names declared by the statements before position k
DeclaredBefore(a, k) ==
    UNION {SeqRange(a[j].vars) : j \in {m \in 1..(k - 1) : a[m].tag = "decl"}}

\* C2: in a statement list that passes check (on a new SemanticTransformer)
\* every variable reference names a variable declared by an earlier
\* declaration.
C2_NoOrphanReference ==
    (Len(log) >= 1 /\ log[1].ok)
        => \A k \in 1..Len(ast) : StmtRefs(ast[k]) \subseteq DeclaredBefore(ast, k)

\* int x;\nprint(x)
PrintUnassigned == JoinLines(<<SrcIntX, SrcPrintParXOpen>>)

\* C3: a declared variable holds the integer 0 until it is assigned, and
\* printing a declared, never assigned variable writes 0 (prgPythonPur.py,
\* where no assignment is ever carried out).
C3_DefaultZero ==
    /\ pc \in {"exec_loop", "done"}
           => \A v \in DOMAIN runtime : runtime[v] = PyInt(0)
    /\ (pc = "done" /\ code_source = PrintUnassigned) => output = <<PyInt(0)>>

IsDiv(e) == e.k = "tuple" /\ e.op = "/"

\* the right operand of e evaluates to 0 (the int 0 or the float 0.0)
DivisorIsZero(e, rt) == EvalExpr(e.r, rt).n = 0

\* C4: a division whose right operand evaluates to 0 evaluates to 0 for
\* every left operand, in every environment execute reaches; the statement
\* holding it raises nothing, a print writes 0 and an assignment stores 0,
\* and the statement loop goes on.
C4_DivisionByZero ==
    /\ \A e \in {d \in Exprs \cup PrintOperands : IsDiv(d)} :
           DivisorIsZero(e, runtime) => EvalExpr(e, runtime) = PyInt(0)
    /\ (stmt.tag = "print" /\ IsDiv(stmt.var) /\ DivisorIsZero(stmt.var, runtime))
           => /\ error = NoError /\ pc # "failed"
              /\ output # <<>> /\ output[Len(output)] = PyInt(0)
    /\ (/\ stmt.tag = "assign" /\ IsDiv(stmt.expr)
        /\ stmt.var \notin ExprNames(stmt.expr)
        /\ DivisorIsZero(stmt.expr, runtime))
           => /\ error = NoError /\ pc # "failed"
              /\ stmt.var \in DOMAIN runtime => runtime[stmt.var] = PyInt(0)

\* i = x / 0 has just run with x non-zero: i holds 0 and the loop goes on
C4_Witness ==
    /\ pc = "exec_loop" /\ ip <= MaxExec
    /\ stmt = SAssign(NameI, ETuple("/", EStr(NameX), EInt(0)))
    /\ NameX \in DOMAIN runtime /\ runtime[NameX].n # 0
    /\ NameI \in DOMAIN runtime /\ runtime[NameI] = PyInt(0)

\* C5: the pipeline on  int x, y; x = 5; y = x + 2; print(y);  passes every
\* phase and writes exactly 7.
C5_Scenario1 ==
    code_source = Scenario1
        => /\ pc # "failed"
           /\ pc = "done" => output = <<PyInt(7)>>

PhaseOrder == <<"lex", "parse", "semantic", "execute">>

\* C6: the phases run in the order lex, parse, semantic analysis,
\* execution, each only after the one before it succeeded; a failed run has
\* stopped, and before execute is entered no statement has been executed
\* and nothing has been written.
C6_PhasesGated ==
    /\ Len(log) <= Len(PhaseOrder)
    /\ \A k \in 1..Len(log) : log[k] = PhaseOrder[k]
    /\ Len(log) >= 2 => LarkLex(code_source).ok
    /\ Len(log) >= 3 => LarkParse(code_source).ok
    /\ Len(log) >= 4 => Check(LarkParse(code_source).ast, IntTable({})).ok
    /\ Len(log) < 4 => /\ ip = 0 /\ stmt = NoStmt
                       /\ output = <<>> /\ runtime = <<>>
    /\ pc = "failed" => error # NoError /\ ~ENABLED Next

\* a redeclaration stopped the run in the semantic phase
C6_Witness ==
    /\ pc = "failed"
    /\ log = <<"lex", "parse", "semantic">>
    /\ error.kind = "Redeclared"
    /\ output = <<>> /\ ip = 0

\* C7: a second run of check on a statement list that passed the first run
\* also passes and leaves the same symbol table.
C7_Idempotent ==
    (Len(log) >= 2 /\ log[1].ok)
        => (log[2].ok /\ log[2].table = log[1].table)

\* the characters some pattern of token_specification can start at
PurAlphabet == NameChar \cup {",", ";", "+", "=", "(", ")"} \cup PurSkip

HasUnmatchedChar(s) == \E p \in 1..Len(s) : s[p] \notin PurAlphabet

\* C8: a source text holding a character no token pattern matches fails in
\* the lexical phase: no token list is produced (prgPythonPur.py).
C8_LexErrorHalts ==
    HasUnmatchedChar(code_source) => (pc \in {"lex", "failed"} /\ tokens = <<>>)

\* the expression a statement evaluates
Operand(s) == IF s.tag = "assign" THEN s.expr ELSE s.var

\* C9: evaluating a reference to a name that is no key of the runtime
\* environment aborts execute.
C9_MissingKeyFatal ==
    (/\ stmt.tag \in {"assign", "print"}
     /\ \E v \in ExprNames(Operand(stmt)) : v \notin DOMAIN runtime)
        => pc = "failed"

\* C10: the statement loop, given  while (i < 3) { print(i); i = i + 1; }
\* with i = 0, writes 0, 1, 2 and leaves i = 3.
C10_WhileRuns ==
    [][(/\ pc = "exec_loop" /\ ip' = ip + 1 /\ stmt' = WhileI
        /\ NameI \in DOMAIN runtime /\ runtime[NameI] = PyInt(0))
          => (/\ pc' = "exec_loop"
              /\ runtime'[NameI] = PyInt(3)
              /\ output' = output \o <<PyInt(0), PyInt(1), PyInt(2)>>)]_vars

\* the statement tuples inside the Tree('statement', [tuple]) children
A2Unwrap(trees) == [k \in 1..Len(trees) |-> trees[k].children[1]]

\* the names a declaration tuple of the transformer lists
A2DeclNames(node) ==
    UNION {IF node.vars[k].k = "list" THEN {w.s : w \in SeqRange(node.vars[k].items)}
           ELSE {node.vars[k].s} : k \in 1..Len(node.vars)}

A2IsCompound(node) == node.tag \in {"while(S-attribue)", "if(S-attribue)"}

\* C11: when analyze's semantic analysis has passed, every top-level
\* declaration is recorded in the symbol table, and no statement inside a
\* while or if body assigns or prints a variable that is not in it.
C11_VisitsEveryStatement ==
    pc \in {"a2_tac", "a2_done"}
        => LET top == A2Unwrap(ast.children)
           IN  \A k \in 1..Len(top) :
                  /\ top[k].tag = "decl(L-attribue)"
                        => A2DeclNames(top[k]) \subseteq DOMAIN symbol_table
                  /\ A2IsCompound(top[k])
                        => \A b \in SeqRange(A2Unwrap(top[k].body)) :
                              b.tag \in {"assign(S-attribue)", "print(S-attribue)"}
                                  => b.var.s \in DOMAIN symbol_table

\* C12: from the call of execute on, the keys of runtime are the keys of
\* the symbol table; no step changes the symbol table, a step of the
\* statement loop neither adds nor removes a key of runtime, and a value
\* changes only by an assignment, and only the value of its target.
C12_RuntimeKeys ==
    /\ [](pc \in {"exec_loop", "done", "failed"}
            => DOMAIN runtime = DOMAIN symbol_table)
    /\ [][/\ symbol_table' = symbol_table
          /\ pc = "exec_loop"
                => /\ DOMAIN runtime' = DOMAIN runtime
                   /\ \A v \in DOMAIN runtime :
                         runtime'[v] # runtime[v]
                             => (stmt'.tag = "assign" /\ stmt'.var = v)]_vars

\* x = 1 has run in a call whose symbol table holds i only
C12_Witness ==
    /\ pc = "exec_loop"
    /\ symbol_table = IntTable({NameI})
    /\ stmt = SAssign(NameX, EInt(1))
    /\ DOMAIN runtime = {NameI}

\* C13: every value execute stores in the environment or prints is an
\* integer: a binary expression, the quotient of a division included,
\* never evaluates to a non-integer.
C13_IntegerValues ==
    /\ \A v \in DOMAIN runtime : runtime[v].k = "int"
    /\ \A k \in 1..Len(output) : output[k].k = "int"

\* C14: the parsing loop of prgPythonPur.py terminates: at the loop head
\* with tokens left, the iteration advances i whatever the current token
\* is; no token access leaves the list (no IndexError before execute has
\* started); and the loop ends with i = len(tokens).
C14_ParseLoopTerminates ==
    /\ (pc = "parse" /\ i < Len(tokens)) => ENABLED (NextPur /\ i' > i)
    /\ (pc = "failed" /\ ip = 0) => error.kind # "IndexError"
    /\ pc \in {"semantic", "execute", "exec_loop", "done"} => i = Len(tokens)

=============================================================================
